---- MODULE Spec2Model ----
(***************************************************************************)
(* A model of the Fastify adapter of the maestro request framework:        *)
(*   - the adapter's boot/start lifecycle and route registration           *)
(*     (src/src/Adapter.ts),                                                *)
(*   - the per-request flow _requestHandler with ErrorHandler and          *)
(*     SendResponse (src/src/Adapter.ts, src/unnamed/part_001,              *)
(*     src/src/sendResponse/SendResponse.ts),                               *)
(*   - command dispatch applyCommandsToResponse,                            *)
(*   - TransformRequest (src/src/transformRequest/TransformRequest.ts).     *)
(* Each part has its own specification over the shared variables.          *)
(***************************************************************************)
EXTENDS Integers, Sequences, FiniteSets, TLC

VARIABLES
  \* ---- Adapter lifecycle state (Adapter.ts fields)
  containers,      \* this.containers: sequence of container ids
  _booted,         \* this._booted
  _started,        \* this._started
  _port,           \* this._port
  _loadedRoutes,   \* this._loadedRoutes: sequence of route ids
  fastifyRoutes,   \* the calls fastify.route({method, url, handler}) made so far
  routeEvents,     \* the events emitted by addRouteToHttpMethod
  listenPort,      \* the port handed to the last fastify.listen (0: never listened)
  everStarted,     \* history: start() has been called at least once
  lastOp,          \* history: the last operation called and its argument
  \* ---- TransformRequest, applied to one native request
  request,         \* the FastifyRequest handed to TransformRequest
  apiRequest,      \* the IRouteRequest it returned (NoRequest before the call)
  \* ---- SendResponse, applied to one route response
  routeResp,       \* the IApiRouteResponse handed to SendResponse
  sent,            \* the native reply and the promise after the call
  \* ---- the request flow of Adapter._requestHandler
  _apiHandler,     \* this._apiHandler: "undefined" or "function"
  _transformRequest, \* this._transformRequest: "TransformRequest" or a function that fails
  rq,              \* the position of the request in flight and what it did so far
  reqIO            \* the native reply and the promise of the request in flight

lifeVars == <<containers, _booted, _started, _port, _loadedRoutes, fastifyRoutes,
              routeEvents, listenPort, everStarted, lastOp>>

trVars == <<request, apiRequest>>

sendVars == <<routeResp, sent>>

reqVars == <<_apiHandler, _transformRequest, rq, reqIO>>

vars == <<lifeVars, trVars, sendVars, reqVars>>

-----------------------------------------------------------------------------
(* Small helpers on sequences *)

Range(s) == {s[i] : i \in DOMAIN s}

Includes(s, x) == \E i \in DOMAIN s : s[i] = x

IsPrefix(s, t) == Len(s) <= Len(t) /\ \A i \in DOMAIN s : s[i] = t[i]

-----------------------------------------------------------------------------
(* Bounds and program constants *)

NumContainers == 2

NumKeys == 1

MaxCommands == 2

DefaultListenPort == 3031

ADAPTER_NAME == "Fastify"

ContainerIds == 1..NumContainers

\* Route objects. Container c exposes routes c and c+1, so that neighbouring
\* containers share a route object; the even containers list a route twice.
RouteIds == 1..(NumContainers + 1)

allRoutes(c) == IF c % 2 = 0 THEN <<c, c + 1, c>> ELSE <<c, c + 1>>

\* route.url of the route objects: with and without the leading slash, padded.
RouteUrl(r) == CASE r % 3 = 1 -> "users"
                 [] r % 3 = 2 -> "/users"
                 [] OTHER     -> " items "

\* route.methods: HTTPMethod | HTTPMethod[]
RouteMethods(r) == CASE r % 3 = 1 -> [isArray |-> FALSE, one |-> "get", many |-> <<>>]
                     [] r % 3 = 2 -> [isArray |-> TRUE, one |-> "", many |-> <<"search", "post">>]
                     [] OTHER     -> [isArray |-> TRUE, one |-> "", many |-> <<"get", "delete">>]

\* A port value: Number(...) may be NaN.
PortNaN == [isNaN |-> TRUE, n |-> 0]

PortNum(n) == [isNaN |-> FALSE, n |-> n]

PortArgs == {PortNum(0), PortNum(3000), PortNum(4000)}

\* Number(process.env.FASTIFY_PORT) ?? 3333 : Number() never yields null or
\* undefined, so the fallback is dead and an unset variable gives NaN.
InitialPorts == {PortNaN} \cup PortArgs

-----------------------------------------------------------------------------
(* TransformRequest *)

\* parameter names that may occur in the sources of a native request
KeyName(i) == CASE i = 1 -> "id"
                [] i = 2 -> "token"
                [] OTHER -> "lang"

Keys == {KeyName(i) : i \in 1..NumKeys}

Origins == <<"header", "cookie", "body", "query", "url">>

\* the value a source holds for a key: every source holds its own value
ValueIn(origin, key) == origin \o "=" \o key

\* an object of a source, or null / undefined
Obj(origin, keys) == [isNull |-> FALSE, map |-> [k \in keys |-> ValueIn(origin, k)]]

Null == [isNull |-> TRUE, map |-> <<>>]

SourceObjects(origin) == {Obj(origin, ks) : ks \in SUBSET Keys}

\* request.headers, with or without a user-agent
HeaderObjects ==
  SourceObjects("header")
    \cup {[isNull |-> FALSE,
           map |-> [k \in ks \cup {"user-agent"} |->
                      IF k = "user-agent" THEN "curl" ELSE ValueIn("header", k)]]
            : ks \in SUBSET Keys}

NativeRequests ==
  [url     : {"/users"},
   ip      : {"10.0.0.1"},
   ips     : {[isNull |-> TRUE, list |-> <<>>],
              [isNull |-> FALSE, list |-> <<"10.0.0.1", "10.0.0.2">>]},
   headers : HeaderObjects,
   cookies : SourceObjects("cookie") \cup {Null},
   body    : SourceObjects("body") \cup {Null},
   query   : SourceObjects("query") \cup {Null},
   params  : SourceObjects("url") \cup {Null}]

\* Array.prototype.join
RECURSIVE join(_, _)
join(list, sep) ==
  IF list = <<>> THEN ""
  ELSE IF Len(list) = 1 THEN list[1]
  ELSE list[1] \o sep \o join(Tail(list), sep)

\* new RouteRequest(adapter, url)
RouteRequest(adapter, url) ==
  [adapter |-> adapter, url |-> url, identification |-> "", method |-> "",
   names |-> {}, params |-> <<>>, added |-> <<>>]

\* IRouteRequest.add(name, value, origin): the normalized mapping is keyed by the
\* parameter name, the last write under a name wins; added logs the calls
add(req, name, value, origin) ==
  [req EXCEPT !.added = Append(@, [name |-> name, value |-> value, origin |-> origin]),
              !.names = @ \cup {name},
              !.params = [n \in req.names \cup {name} |->
                            IF n = name THEN [value |-> value, origin |-> origin]
                            ELSE req.params[n]]]

\* x ?? {}
OrEmpty(obj) == IF obj.isNull THEN [isNull |-> FALSE, map |-> <<>>] ELSE obj

\* for (let name in obj) req.add(name, obj[name], origin), in some key order
RECURSIVE AddAll(_, _, _, _)
AddAll(req, obj, keys, origin) ==
  IF obj.isNull \/ keys = {} THEN req
  ELSE LET k == CHOOSE x \in keys : TRUE
       IN  AddAll(add(req, k, obj.map[k], origin), obj, keys \ {k}, origin)

AddSource(req, obj, origin) ==
  AddAll(req, obj, IF obj.isNull THEN {} ELSE DOMAIN obj.map, origin)

\* (ips != null ? ips.join(' - ') : ip) + " | " + headers["user-agent"] ?? "UA-NOT-PROVIDED"
\* : + binds tighter than ??, so a missing user-agent is concatenated as "undefined"
Identification(r) ==
  (IF ~r.ips.isNull THEN join(r.ips.list, " - ") ELSE r.ip)
    \o " | "
    \o (IF "user-agent" \in DOMAIN r.headers.map THEN r.headers.map["user-agent"]
        ELSE "undefined")

\* the sources in another order: the URL parameters before the query string
TransformRequestUrlBeforeQuery(r) ==
  LET req0 == [RouteRequest(ADAPTER_NAME, r.url) EXCEPT !.identification = Identification(r)]
      req1 == AddSource(req0, r.headers, "header")
      req2 == AddSource(req1, r.cookies, "cookie")
      req3 == AddSource(req2, OrEmpty(r.body), "body")
      req4 == AddSource(req3, OrEmpty(r.params), "url")
  IN  AddSource(req4, OrEmpty(r.query), "query")

TransformRequest(r) ==
  LET req0 == [RouteRequest(ADAPTER_NAME, r.url) EXCEPT !.identification = Identification(r)]
      req1 == AddSource(req0, r.headers, "header")
      req2 == AddSource(req1, r.cookies, "cookie")
      req3 == AddSource(req2, OrEmpty(r.body), "body")
      req4 == AddSource(req3, OrEmpty(r.query), "query")
  IN  AddSource(req4, OrEmpty(r.params), "url")

NoRequest == [RouteRequest("", "") EXCEPT !.identification = "not transformed"]

-----------------------------------------------------------------------------
(* Values, the promise handed to fastify and the native reply *)

\* a JavaScript value of a field that may be missing or of either type
Undefined == [t |-> "undefined", s |-> "", n |-> 0]

Str(x) == [t |-> "string", s |-> x, n |-> 0]

Num(k) == [t |-> "number", s |-> "", n |-> k]

\* the promise returnToFastify with the calls made of its resolve and reject
\* what a promise is settled with: an error payload or the data of a response
SettleValue(exitCode, message, data) == [exitCode |-> exitCode, message |-> message, data |-> data]

NoValue == SettleValue("", "", "")

NewPromise == [state |-> "pending", value |-> NoValue, resolveCalls |-> 0, rejectCalls |-> 0]

resolve(p, v) ==
  [p EXCEPT !.resolveCalls = @ + 1,
            !.state = IF @ = "pending" THEN "resolved" ELSE @,
            !.value = IF p.state = "pending" THEN v ELSE @]

reject(p, v) ==
  [p EXCEPT !.rejectCalls = @ + 1,
            !.state = IF @ = "pending" THEN "rejected" ELSE @,
            !.value = IF p.state = "pending" THEN v ELSE @]

\* the FastifyReply: status 0 is "not set"; calls logs the command functions
\* invoked on it; thrown is set when a call on behalf of it raised an exception
NewReply == [status |-> 0, headers |-> {}, cookies |-> {}, calls |-> <<>>, thrown |-> FALSE]

\* the reply and the promise one request works on
NewIO == [reply |-> NewReply, promise |-> NewPromise]

\* response.header(name, value)
header(reply, name, value) ==
  [reply EXCEPT !.headers = {h \in @ : h.name # name} \cup {[name |-> name, value |-> value]}]

\* response.setCookie(name, value, options)
setCookie(reply, name, value) ==
  [reply EXCEPT !.cookies = {c \in @ : c.name # name} \cup {[name |-> name, value |-> value]}]

\* response.status(code)
status(reply, code) == [reply EXCEPT !.status = code]

-----------------------------------------------------------------------------
(* ErrorHandler *)

ErrorPayload(exitCode, message) == SettleValue(exitCode, message, "")

\* the payload built from the error: exitCode defaults to REQUEST_REFUSED
PayloadOf(error) ==
  ErrorPayload(IF error.exitCode.t = "string" THEN error.exitCode.s ELSE "REQUEST_REFUSED",
               error.message)

\* a handler that resolves whatever the error exposes
ErrorHandlerAlwaysResolves(io, error) ==
  IF error.httpStatus.t = "number"
  THEN [reply |-> status(io.reply, error.httpStatus.n),
        promise |-> resolve(io.promise, PayloadOf(error))]
  ELSE [reply |-> status(io.reply, 500),
        promise |-> resolve(io.promise, PayloadOf(error))]

ErrorHandler(io, error) ==
  IF error.httpStatus.t = "number"
  THEN [reply |-> status(io.reply, error.httpStatus.n),
        promise |-> resolve(io.promise, PayloadOf(error))]
  ELSE [reply |-> status(io.reply, 500),
        promise |-> reject(io.promise, PayloadOf(error))]

\* errors the orchestrator may hand to its error callback
Errors ==
  [message    : {"denied"},
   exitCode   : {Undefined, Str("NOT_ALLOWED"), Num(7)},
   httpStatus : {Undefined, Num(403), Num(500), Str("403")}]

\* new RequestFlowNotDefined(message): a class of the maestro library, which may
\* or may not expose an exit code and an HTTP status
RequestFlowNotDefined ==
  [message    : {"Fastify adapter does not have an associated api request handler"},
   exitCode   : {Undefined, Str("REQUEST_FLOW_NOT_DEFINED")},
   httpStatus : {Undefined, Num(500)}]

-----------------------------------------------------------------------------
(* Commands and SendResponse *)

\* command.adapters: undefined, one adapter name or a list of names
NoAdapters == [t |-> "undefined", s |-> "", list |-> <<>>]

AdapterName(x) == [t |-> "string", s |-> x, list |-> <<>>]

AdapterList(l) == [t |-> "array", s |-> "", list |-> l]

\* an ICommand, or an array of commands
Command(name, adapters, payload) ==
  [isArray |-> FALSE, name |-> name, adapters |-> adapters, payload |-> payload,
   items |-> <<>>]

CommandArray(items) ==
  [isArray |-> TRUE, name |-> "", adapters |-> NoAdapters, payload |-> "", items |-> items]

\* Adapter.CreateCookie(name, value, options); the payload is kept abstract
CreateCookie(payload) == Command("create-cookie", AdapterList(<<ADAPTER_NAME>>), payload)

\* (Commands as any)[name]: the two own properties of the Commands object, and
\* what a plain object inherits from Object.prototype
CommandsLookup(name) ==
  CASE name = "set-header"    -> "set-header"
    [] name = "create-cookie" -> "create-cookie"
    [] name = "toString"      -> "inherited function"
    [] name = "__proto__"     -> "not a function"
    [] OTHER                  -> "undefined"

KnownCommands == {"set-header", "create-cookie"}

\* (Commands as any)[command.name](response, command.payload)
InvokeCommand(reply, command) ==
  LET fn == CommandsLookup(command.name)
      logged == [reply EXCEPT !.calls = Append(@, [fn |-> fn, payload |-> command.payload])]
  IN  CASE fn = "set-header"         -> header(logged, command.payload, "on")
        [] fn = "create-cookie"      -> setCookie(logged, command.payload, "on")
        [] fn = "inherited function" -> logged
        [] OTHER                     -> [reply EXCEPT !.thrown = TRUE]

\* the adapter test that lets every filter that is not a list through
ApplyCommandAnyName(reply, command) ==
  IF command.adapters.t = "array" /\ ~Includes(command.adapters.list, ADAPTER_NAME)
  THEN reply
  ELSE IF command.adapters.t # "array"
  THEN IF CommandsLookup(command.name) # "undefined"
       THEN InvokeCommand(reply, command)
       ELSE reply
  ELSE reply

\* the else branch of applyCommandsToResponse: one command
ApplyCommand(reply, command) ==
  IF command.adapters.t = "array" /\ ~Includes(command.adapters.list, ADAPTER_NAME)
  THEN reply
  ELSE IF command.adapters.t = "undefined"
          \/ (command.adapters.t = "string" /\ command.adapters.s = ADAPTER_NAME)
  THEN IF CommandsLookup(command.name) # "undefined"
       THEN InvokeCommand(reply, command)
       ELSE reply
  ELSE reply

\* an exception ends the loop and the callers
RECURSIVE applyCommandsToResponse(_, _)
applyCommandsToResponse(reply, commands) ==
  IF reply.thrown THEN reply
  ELSE IF commands.isArray
  THEN IF commands.items = <<>> THEN reply
       ELSE applyCommandsToResponse(
              applyCommandsToResponse(reply, Head(commands.items)),
              CommandArray(Tail(commands.items)))
  ELSE ApplyCommand(reply, commands)

NullPayload == "null"

EmptyObject == "{}"

SendResponse(io, resp) ==
  LET send == IF resp.payload = NullPayload THEN EmptyObject ELSE resp.payload
      r1 == IF resp.hasCommands THEN applyCommandsToResponse(io.reply, resp.commands)
            ELSE io.reply
  IN  IF r1.thrown THEN [io EXCEPT !.reply = r1]
      ELSE [reply |-> status(header(r1, "X-Exit-Code", resp.exitCode), resp.status),
            promise |-> resolve(io.promise, SettleValue("", "", send))]

-----------------------------------------------------------------------------
(* TransformRequest and SendResponse applied to bounded inputs *)

InitTransform == request \in NativeRequests /\ apiRequest = NoRequest

InitTransformIdle ==
  /\ request = CHOOSE r \in NativeRequests : TRUE
  /\ apiRequest = NoRequest

CallTransformRequest ==
  /\ apiRequest = NoRequest
  /\ apiRequest' = TransformRequest(request)
  /\ UNCHANGED <<request, lifeVars, sendVars, reqVars>>

PayloadTag(i) == CASE i = 1 -> "p1"
                   [] i = 2 -> "p2"
                   [] i = 3 -> "p3"
                   [] OTHER -> "p4"

CommandNames == {"set-header", "create-cookie", "refresh-cache", "toString", "__proto__"}

AdapterFilters ==
  {NoAdapters, AdapterName(ADAPTER_NAME), AdapterName("Express"),
   AdapterList(<<ADAPTER_NAME>>), AdapterList(<<"Express">>),
   AdapterList(<<"Express", ADAPTER_NAME>>)}

CommandShapes == [name : CommandNames, adapters : AdapterFilters]

\* the commands of a list carry the payload of their position
Tagged(shapes) ==
  [i \in DOMAIN shapes |-> Command(shapes[i].name, shapes[i].adapters, PayloadTag(i))]

ShapeLists == UNION {[1..n -> CommandShapes] : n \in 0..MaxCommands}

\* routeResp.commands: one command, a list of commands, or a list of a command
\* and a list
CommandValues ==
  {Tagged(<<sh>>)[1] : sh \in CommandShapes}
    \cup {CommandArray(Tagged(l)) : l \in ShapeLists}
    \cup {CommandArray(<<Tagged(l)[1], CommandArray(Tail(Tagged(l)))>>) :
            l \in [1..2 -> CommandShapes]}

NoCommands == CommandArray(<<>>)

RouteResponse(payload, exitCode, code, hasCommands, commands) ==
  [payload |-> payload, exitCode |-> exitCode, status |-> code,
   hasCommands |-> hasCommands, commands |-> commands]

NoResponse == RouteResponse(NullPayload, "", 0, FALSE, NoCommands)

\* a response without payload and status 200, or with a payload and status 201
ResponsesWith(commandValues) ==
  {RouteResponse(pc[1], "OK", pc[2], TRUE, cmds) :
     pc \in {<<NullPayload, 200>>, <<"data", 201>>}, cmds \in commandValues}
    \cup {RouteResponse(pc[1], "OK", pc[2], FALSE, NoCommands) :
            pc \in {<<NullPayload, 200>>, <<"data", 201>>}}

RouteResponses == ResponsesWith(CommandValues)

InitSend == routeResp = NoResponse /\ sent = NewIO

CallSendResponse ==
  /\ routeResp = NoResponse
  /\ \E resp \in RouteResponses :
       /\ routeResp' = resp
       /\ sent' = SendResponse(NewIO, resp)
  /\ UNCHANGED <<lifeVars, trVars, reqVars>>

-----------------------------------------------------------------------------
(* The request flow: Adapter._requestHandler *)

REQUEST_ERROR == "request_error"

REQUEST_RESPONSE == "request_response"

\* the bookkeeping of one request: pc is the position of the promise executor
\* ("idle": no request yet, "transforming": suspended at the await,
\* "handling": the orchestrator holds the two callbacks, "done": nothing is
\* left to run)
NewRequest ==
  [pc |-> "idle", missing |-> FALSE, transformFn |-> "", events |-> <<>>,
   errorHandlerCalls |-> 0, sendResponseCalls |-> 0, transformCalls |-> 0,
   handlerCalls |-> 0, thrown |-> "none",
   error |-> [message |-> "", exitCode |-> Undefined, httpStatus |-> Undefined],
   routeResp |-> NoResponse, apiRequest |-> NoRequest]

InitRequest ==
  /\ _apiHandler = "undefined"
  /\ _transformRequest = "TransformRequest"
  /\ rq = NewRequest
  /\ reqIO = NewIO

ReqOnly == UNCHANGED <<lifeVars, trVars, sendVars>>

setRequestHandler ==
  /\ _apiHandler' = "function"
  /\ UNCHANGED <<_transformRequest, rq, reqIO>>
  /\ ReqOnly

setTransformRequestFunction(func) ==
  /\ _transformRequest' = func
  /\ UNCHANGED <<_apiHandler, rq, reqIO>>
  /\ ReqOnly

\* this._errorHandler(response, error, resolve, reject); this.emit(REQUEST_ERROR, ...)
ReportError(r, i, error) ==
  [rq |-> [r EXCEPT !.errorHandlerCalls = @ + 1, !.error = error,
                    !.events = Append(@, REQUEST_ERROR)],
   io |-> ErrorHandler(i, error)]

\* the synchronous part of the promise executor, up to the await: the check of
\* the handler, then the call of this._transformRequest
ExecutorStart(error) ==
  LET r0 == [NewRequest EXCEPT !.missing = (_apiHandler # "function")]
      s1 == IF _apiHandler # "function" THEN ReportError(r0, NewIO, error)
            ELSE [rq |-> r0, io |-> NewIO]
  IN  [rq |-> [s1.rq EXCEPT !.transformCalls = @ + 1,
                            !.transformFn = _transformRequest,
                            !.pc = "transforming"],
       io |-> s1.io]

\* a request arrives on a registered route
HandleRequest ==
  /\ rq.pc \in {"idle", "done"}
  /\ \E error \in RequestFlowNotDefined :
       /\ rq' = ExecutorStart(error).rq
       /\ reqIO' = ExecutorStart(error).io
  /\ UNCHANGED <<_apiHandler, _transformRequest>>
  /\ ReqOnly

\* the executor after the await: the transformation failed and the executor
\* throws, or it goes on to call this._apiHandler!(route, apiRequest, ..., ...)
ExecutorResume(r) ==
  IF r.transformFn # "TransformRequest"
  THEN [r EXCEPT !.thrown = "transformation failed", !.pc = "done"]
  ELSE IF _apiHandler # "function"
  THEN [r EXCEPT !.apiRequest = [TransformRequest(request) EXCEPT !.method = "get"],
                 !.thrown = "TypeError: this._apiHandler is not a function",
                 !.pc = "done"]
  ELSE [r EXCEPT !.apiRequest = [TransformRequest(request) EXCEPT !.method = "get"],
                 !.handlerCalls = @ + 1,
                 !.pc = "handling"]

TransformSettled ==
  /\ rq.pc = "transforming"
  /\ rq' = ExecutorResume(rq)
  /\ UNCHANGED <<_apiHandler, _transformRequest, reqIO>>
  /\ ReqOnly

\* the responses the orchestrator answers with in the request flow: no
\* commands, or a single command
FlowResponses == ResponsesWith({Tagged(<<sh>>)[1] : sh \in CommandShapes})

\* the success callback: this._sendResponse(routeResp, response, resolve), then
\* emit; an exception of SendResponse leaves the callback before the emit
OnSuccess ==
  /\ rq.pc = "handling"
  /\ \E resp \in FlowResponses :
     LET out == SendResponse(reqIO, resp)
     IN  /\ reqIO' = out
         /\ rq' = [rq EXCEPT !.sendResponseCalls = @ + 1,
                             !.routeResp = resp,
                             !.events = IF out.reply.thrown THEN @
                                        ELSE Append(@, REQUEST_RESPONSE),
                             !.thrown = IF out.reply.thrown
                                        THEN "TypeError: not a function" ELSE @,
                             !.pc = "done"]
  /\ UNCHANGED <<_apiHandler, _transformRequest>>
  /\ ReqOnly

\* the error callback
OnError ==
  /\ rq.pc = "handling"
  /\ \E error \in Errors :
       /\ rq' = [ReportError(rq, reqIO, error).rq EXCEPT !.pc = "done"]
       /\ reqIO' = ReportError(rq, reqIO, error).io
  /\ UNCHANGED <<_apiHandler, _transformRequest>>
  /\ ReqOnly

-----------------------------------------------------------------------------
(* Route registration *)

\* route.url.trim(), with a leading slash added when missing
TrimUrl(u) == CASE u = " items " -> "items"
                [] OTHER -> u

RegisteredUrl(u) == IF TrimUrl(u) \in {"/users"} THEN TrimUrl(u) ELSE "/" \o TrimUrl(u)

\* 'search' and 'all' are served as 'post'
ServedMethod(method) == IF method \in {"search", "all"} THEN "post" ELSE method

toLocaleUpperCase(m) == CASE m = "get" -> "GET"
                          [] m = "post" -> "POST"
                          [] m = "put" -> "PUT"
                          [] m = "patch" -> "PATCH"
                          [] m = "delete" -> "DELETE"
                          [] m = "head" -> "HEAD"
                          [] m = "options" -> "OPTIONS"
                          [] m = "connect" -> "CONNECT"
                          [] m = "trace" -> "TRACE"
                          [] m = "all" -> "ALL"
                          [] OTHER -> "SEARCH"

\* the switch over the (already converted) method
MethodEvent(m) == CASE m = "all" -> <<"all_request">>
                    [] m = "get" -> <<"get_request">>
                    [] m = "post" -> <<"post_request">>
                    [] m = "put" -> <<"put_request">>
                    [] m = "patch" -> <<"patch_request">>
                    [] m = "delete" -> <<"delete_request">>
                    [] m = "head" -> <<"head_request">>
                    [] m = "options" -> <<"options_request">>
                    [] m = "connect" -> <<"connect_request">>
                    [] m = "trace" -> <<"trace_request">>
                    [] OTHER -> <<>>

\* The adapter state touched by route loading
LoadState(loaded, routes, events) == [loaded |-> loaded, routes |-> routes, events |-> events]

addRouteToHttpMethod(st, method, route) ==
  LET m == ServedMethod(method)
      reg == [method |-> toLocaleUpperCase(m), url |-> RegisteredUrl(RouteUrl(route)),
              route |-> route, declared |-> method]
  IN  [st EXCEPT !.routes = Append(@, reg),
                 !.events = @ \o [i \in DOMAIN MethodEvent(m) |-> <<MethodEvent(m)[i], route>>]
                              \o << <<"request", route>> >>]

RECURSIVE AddMethods(_, _, _)
AddMethods(st, methods, route) ==
  IF methods = <<>> THEN st
  ELSE AddMethods(addRouteToHttpMethod(st, Head(methods), route), Tail(methods), route)

MethodList(route) ==
  IF RouteMethods(route).isArray THEN RouteMethods(route).many
  ELSE <<RouteMethods(route).one>>

\* the loop body without the check for an already loaded route
LoadRouteUnchecked(st, route) ==
  [AddMethods(st, MethodList(route), route) EXCEPT !.loaded = Append(@, route)]

\* the body of the inner loop of loadRoutesFromContainers
LoadRoute(st, route) ==
  IF Includes(st.loaded, route) THEN st
  ELSE [AddMethods(st, MethodList(route), route) EXCEPT !.loaded = Append(@, route)]

RECURSIVE LoadRoutes(_, _)
LoadRoutes(st, routes) ==
  IF routes = <<>> THEN st
  ELSE LoadRoutes(LoadRoute(st, Head(routes)), Tail(routes))

RECURSIVE loadRoutesFromContainers(_, _)
loadRoutesFromContainers(st, cs) ==
  IF cs = <<>> THEN st
  ELSE loadRoutesFromContainers(LoadRoutes(st, allRoutes(Head(cs))), Tail(cs))

CurrentLoadState == LoadState(_loadedRoutes, fastifyRoutes, routeEvents)

-----------------------------------------------------------------------------
(* Lifecycle operations *)

LifeOnly == UNCHANGED <<trVars, sendVars, reqVars>>

Op(name) == [op |-> name, port |-> PortNaN, reoffered |-> FALSE]

\* some route of these containers is already loaded
Reoffers(cs) ==
  \E i \in DOMAIN cs : \E r \in Range(allRoutes(cs[i])) : Includes(_loadedRoutes, r)

\* what boot() leaves in (booted, load state)
BootResult ==
  IF _booted THEN [booted |-> _booted, st |-> CurrentLoadState]
  ELSE [booted |-> TRUE, st |-> loadRoutesFromContainers(CurrentLoadState, containers)]

\* onPort without the started check
OnPortUnguarded(port) == port

\* onPort(port): the new value of this._port
OnPortResult(port) == IF _started THEN _port ELSE port

\* fastify.listen(this._port > 0 ? this._port : 3031)
ListenArg(p) == IF ~p.isNaN /\ p.n > 0 THEN p.n ELSE DefaultListenPort

addContainer(c) ==
  /\ LifeOnly
  /\ containers' = IF Includes(containers, c) THEN containers ELSE Append(containers, c)
  /\ lastOp' = Op("addContainer")
  /\ UNCHANGED <<_booted, _started, _port, _loadedRoutes, fastifyRoutes, routeEvents,
                 listenPort, everStarted>>

boot ==
  /\ LifeOnly
  /\ _booted' = BootResult.booted
  /\ _loadedRoutes' = BootResult.st.loaded
  /\ fastifyRoutes' = BootResult.st.routes
  /\ routeEvents' = BootResult.st.events
  /\ lastOp' = Op("boot")
  /\ UNCHANGED <<containers, _started, _port, listenPort, everStarted>>

LoadRoutesFromContainers(cs) ==
  LET st == loadRoutesFromContainers(CurrentLoadState, cs)
  IN  /\ _loadedRoutes' = st.loaded
      /\ fastifyRoutes' = st.routes
      /\ routeEvents' = st.events
      /\ lastOp' = [Op("loadRoutesFromContainers") EXCEPT !.reoffered = Reoffers(cs)]
      /\ LifeOnly
      /\ UNCHANGED <<containers, _booted, _started, _port, listenPort, everStarted>>

onPort(port) ==
  /\ LifeOnly
  /\ _port' = OnPortResult(port)
  /\ lastOp' = [Op("onPort") EXCEPT !.port = port]
  /\ UNCHANGED <<containers, _booted, _started, _loadedRoutes, fastifyRoutes, routeEvents,
                 listenPort, everStarted>>

start ==
  /\ LifeOnly
  /\ _booted' = BootResult.booted
  /\ _loadedRoutes' = BootResult.st.loaded
  /\ fastifyRoutes' = BootResult.st.routes
  /\ routeEvents' = BootResult.st.events
  /\ listenPort' = ListenArg(_port)
  /\ _started' = TRUE
  /\ everStarted' = TRUE
  /\ lastOp' = Op("start")
  /\ UNCHANGED <<containers, _port>>

stop ==
  /\ LifeOnly
  /\ _started' = IF _started THEN FALSE ELSE _started
  /\ lastOp' = Op("stop")
  /\ UNCHANGED <<containers, _booted, _port, _loadedRoutes, fastifyRoutes, routeEvents,
                 listenPort, everStarted>>

\* the containers argument of a direct loadRoutesFromContainers call
LoadArgs == {<<c>> : c \in ContainerIds} \cup {<<c, d>> : c \in ContainerIds, d \in ContainerIds}

InitAdapter ==
  /\ containers = <<>>
  /\ _booted = FALSE
  /\ _started = FALSE
  /\ _port \in InitialPorts
  /\ _loadedRoutes = <<>>
  /\ fastifyRoutes = <<>>
  /\ routeEvents = <<>>
  /\ listenPort = 0
  /\ everStarted = FALSE
  /\ lastOp = Op("constructor")

\* the adapter as constructed without a port argument and an unset FASTIFY_PORT
InitAdapterIdle == InitAdapter /\ _port = PortNaN

InitLife ==
  /\ InitAdapter
  /\ InitTransformIdle
  /\ InitSend
  /\ InitRequest

NextLife ==
  \/ \E c \in ContainerIds : addContainer(c)
  \/ boot
  \/ \E cs \in LoadArgs : LoadRoutesFromContainers(cs)
  \/ \E p \in PortArgs : onPort(p)
  \/ start
  \/ stop

SpecLife == InitLife /\ [][NextLife]_vars

\* TransformRequest on every native request
NextTransform == CallTransformRequest

InitTransformOnly == InitAdapterIdle /\ InitTransform /\ InitSend /\ InitRequest

SpecTransform == InitTransformOnly /\ [][NextTransform]_vars

\* SendResponse on every route response
NextSend == CallSendResponse

InitSendOnly == InitAdapterIdle /\ InitTransformIdle /\ InitSend /\ InitRequest

SpecSend == InitSendOnly /\ [][NextSend]_vars

\* requests, one after the other, on an adapter being configured
NextRequest ==
  \/ setRequestHandler
  \/ \E f \in {"TransformRequest", "failing function"} : setTransformRequestFunction(f)
  \/ HandleRequest
  \/ TransformSettled
  \/ OnSuccess
  \/ OnError

InitRequestOnly == InitAdapterIdle /\ InitTransformIdle /\ InitSend /\ InitRequest

SpecRequest == InitRequestOnly /\ [][NextRequest]_vars

-----------------------------------------------------------------------------
(* Lifecycle properties *)

RoutesOfAddedContainers == UNION {Range(allRoutes(c)) : c \in Range(containers)}

IsRegistered(r) == \E i \in DOMAIN fastifyRoutes : fastifyRoutes[i].route = r

DuplicateFree(s) == \A i, j \in DOMAIN s : s[i] = s[j] => i = j

\* no route has one of the methods it declares registered twice
RegisteredOnce ==
  \A i, j \in DOMAIN fastifyRoutes :
    (fastifyRoutes[i].route = fastifyRoutes[j].route
       /\ fastifyRoutes[i].declared = fastifyRoutes[j].declared) => i = j

\* C7: once start() has returned, every route of every container added to the
\* adapter so far is in the loaded-routes list and registered with the HTTP
\* library, also when the container was added after an earlier boot().
C7_AddedRoutesLoadedAfterStart ==
  lastOp.op = "start" =>
    \A r \in RoutesOfAddedContainers : Includes(_loadedRoutes, r) /\ IsRegistered(r)

-----------------------------------------------------------------------------
(* Command dispatch properties (SpecSend) *)

\* the single commands of a command value, nested lists included, in order
RECURSIVE Flatten(_)
Flatten(commands) ==
  IF ~commands.isArray THEN <<commands>>
  ELSE IF commands.items = <<>> THEN <<>>
  ELSE Flatten(Head(commands.items)) \o Flatten(CommandArray(Tail(commands.items)))

CommandsOf(resp) == IF resp.hasCommands THEN Range(Flatten(resp.commands)) ELSE {}

\* the adapter filter is present and does not name this adapter
FilterExcludes(c) ==
  \/ c.adapters.t = "string" /\ c.adapters.s # "Fastify"
  \/ c.adapters.t = "array" /\ \A i \in DOMAIN c.adapters.list : c.adapters.list[i] # "Fastify"

TimesInvoked(reply, c) ==
  Cardinality({i \in DOMAIN reply.calls : reply.calls[i].payload = c.payload})

LeftNoTrace(reply, c) ==
  /\ TimesInvoked(reply, c) = 0
  /\ \A h \in reply.headers : h.name # c.payload
  /\ \A k \in reply.cookies : k.name # c.payload

\* C1: a command whose adapter filter is present and does not name this
\* adapter is never applied: no command function is invoked for it and the
\* native reply gets no header and no cookie from it.
C1_ExcludedCommandsNeverApplied ==
  \A c \in CommandsOf(routeResp) : FilterExcludes(c) => LeftNoTrace(sent.reply, c)

\* a sent response with an excluded set-header command next to an applied command
C1_ExcludedNextToApplied ==
  /\ \E c \in CommandsOf(routeResp) : FilterExcludes(c) /\ c.name = "set-header"
  /\ \E c \in CommandsOf(routeResp) : TimesInvoked(sent.reply, c) = 1
  /\ sent.promise.state = "resolved"

\* C2: every command with a known name whose adapter filter is absent or
\* matches this adapter (a list containing "Fastify" included) is applied to
\* the native reply exactly once, whenever SendResponse raised no exception.
C2_MatchingKnownCommandsAppliedOnce ==
  ~sent.reply.thrown =>
    \A c \in CommandsOf(routeResp) :
      (c.name \in KnownCommands /\ ~FilterExcludes(c)) => TimesInvoked(sent.reply, c) = 1

\* C3: a response holding a command whose name is not in the command mapping
\* is sent all the same: no exception, no header or cookie from that command,
\* the known commands without a list filter applied once, the exit-code header
\* and the status set, the promise resolved once.
C3_UnknownCommandsIgnored ==
  (\E c \in CommandsOf(routeResp) : c.name \notin KnownCommands) =>
    /\ ~sent.reply.thrown
    /\ \A c \in CommandsOf(routeResp) :
         /\ c.name \notin KnownCommands =>
              /\ \A h \in sent.reply.headers : h.name # c.payload
              /\ \A k \in sent.reply.cookies : k.name # c.payload
         /\ (c.name \in KnownCommands /\ ~FilterExcludes(c) /\ c.adapters.t # "array") =>
              TimesInvoked(sent.reply, c) = 1
    /\ [name |-> "X-Exit-Code", value |-> routeResp.exitCode] \in sent.reply.headers
    /\ sent.reply.status = routeResp.status
    /\ sent.promise.state = "resolved"
    /\ sent.promise.resolveCalls = 1

-----------------------------------------------------------------------------
(* Request flow properties (SpecRequest) *)

\* C4: after ErrorHandler ran on an error, the status is the error's
\* httpStatus and the promise is resolved with {exitCode, message} when the
\* httpStatus is a number; otherwise the status is 500 and the promise is
\* rejected; one of resolve and reject was called, once.
C4_ErrorHandlerStatusAndSettlement ==
  (rq.errorHandlerCalls = 1 /\ rq.sendResponseCalls = 0) =>
    /\ reqIO.promise.resolveCalls + reqIO.promise.rejectCalls = 1
    /\ reqIO.promise.value.message = rq.error.message
    /\ reqIO.promise.value.exitCode =
         (IF rq.error.exitCode.t = "string" THEN rq.error.exitCode.s ELSE "REQUEST_REFUSED")
    /\ IF rq.error.httpStatus.t = "number"
       THEN /\ reqIO.reply.status = rq.error.httpStatus.n
            /\ reqIO.promise.state = "resolved"
            /\ reqIO.promise.resolveCalls = 1
       ELSE /\ reqIO.reply.status = 500
            /\ reqIO.promise.state = "rejected"
            /\ reqIO.promise.rejectCalls = 1

\* the error callback ran with an error whose httpStatus is a string
C4_ErrorWithStringStatusRejected ==
  /\ rq.pc = "done"
  /\ rq.errorHandlerCalls = 1
  /\ ~rq.missing
  /\ rq.error.httpStatus.t = "string"
  /\ reqIO.promise.state = "rejected"

\* C5: a request that arrived while no request handler was set (and none has
\* been set since) reports the error once, emits REQUEST_ERROR once and ends
\* there: no transformation, no handler call, no further error.
C5_MissingHandlerEndsRequest ==
  (rq.pc # "idle" /\ rq.missing /\ _apiHandler = "undefined") =>
    /\ rq.errorHandlerCalls = 1
    /\ rq.events = <<REQUEST_ERROR>>
    /\ rq.transformCalls = 0
    /\ rq.handlerCalls = 0
    /\ rq.thrown = "none"

\* C10: when nothing is left to run for a request that arrived with a handler
\* set and whose response raised no exception, resolve or reject was called
\* exactly once and exactly one of REQUEST_RESPONSE / REQUEST_ERROR was emitted.
C10_SettledOnceOneEvent ==
  (rq.pc = "done" /\ ~rq.missing /\ ~reqIO.reply.thrown) =>
    /\ reqIO.promise.state # "pending"
    /\ reqIO.promise.resolveCalls + reqIO.promise.rejectCalls = 1
    /\ Len(rq.events) = 1

-----------------------------------------------------------------------------
(* TransformRequest properties (SpecTransform) *)

\* the five sources of a native request in the order they are added
SourcesOf(r) == <<r.headers, r.cookies, r.body, r.query, r.params>>

Holds(obj, k) == ~obj.isNull /\ k \in DOMAIN obj.map

KeysOf(r) == UNION {IF SourcesOf(r)[i].isNull THEN {} ELSE DOMAIN SourcesOf(r)[i].map : i \in 1..5}

LastSource(r, k) == CHOOSE i \in 1..5 :
  Holds(SourcesOf(r)[i], k) /\ \A j \in (i + 1)..5 : ~Holds(SourcesOf(r)[j], k)

Transformed == apiRequest # NoRequest

\* C6 as stated: every key of every source is in the normalized request with
\* the value that source holds for it.
C6_EveryKeyCopiedWithItsValue ==
  Transformed =>
    \A i \in 1..5 : \A k \in KeysOf(request) :
      Holds(SourcesOf(request)[i], k) =>
        /\ k \in apiRequest.names
        /\ apiRequest.params[k].value = SourcesOf(request)[i].map[k]

\* C6 amended: every key of every source is handed to the normalized request
\* once, with the value and the origin of that source; the normalized request
\* holds exactly these keys, each with the value and origin of the last
\* source, in the order header, cookie, body, query, url, that holds the key.
C6_EveryKeyCopiedLastSourceWins ==
  Transformed =>
    /\ \A i \in 1..5 : \A k \in KeysOf(request) :
         Cardinality({j \in DOMAIN apiRequest.added :
                        /\ apiRequest.added[j].name = k
                        /\ apiRequest.added[j].origin = Origins[i]
                        /\ Holds(SourcesOf(request)[i], k)
                        /\ apiRequest.added[j].value = SourcesOf(request)[i].map[k]})
           = (IF Holds(SourcesOf(request)[i], k) THEN 1 ELSE 0)
    /\ apiRequest.names = KeysOf(request)
    /\ \A k \in KeysOf(request) :
         /\ apiRequest.params[k].value = SourcesOf(request)[LastSource(request, k)].map[k]
         /\ apiRequest.params[k].origin = Origins[LastSource(request, k)]

\* a transformed request whose key "id" is in all five sources
C6_KeyInEverySource ==
  /\ Transformed
  /\ \A i \in 1..5 : Holds(SourcesOf(request)[i], "id")

====
